---------------------------- MODULE Spec2Model ----------------------------
(***************************************************************************)
(* A model of the PLIP report tools of Cyclochlorotine_Analysis:           *)
(*   visual.py     normalize_json, make_res_label, build_counts, main      *)
(*   xmltojson.py  tag_localname, find_residue_info, walk_and_collect,     *)
(*                 main                                                    *)
(* Python strings are sequences of one-character strings, so that regular  *)
(* expressions, substring tests, lower() and int()/str() are computed      *)
(* rather than assumed.  Python values are tagged records.                 *)
(***************************************************************************)
EXTENDS Integers, Sequences, FiniteSets, TLC

VARIABLES
    tool,        \* which program runs: "label", "classify", "counts", "visual", "xml"
    pc,          \* position inside that program
    item,        \* make_res_label: the argument
    label,       \* make_res_label: the returned label
    key,         \* classifier: the key or tag string
    cls,         \* classifier: <<JSON result, XML result>>
    plip_json,   \* visual.main: the parsed JSON document (ordered key/value pairs)
    normalized,  \* visual: the CanonicalReport (category -> list of items)
    table,       \* visual: the rows of the DataFrame, in index order
    total,       \* visual: build_counts' total
    files,       \* the output artifacts on disk
    order,       \* build_counts: the iteration order of the CanonicalReport's keys
    tree,        \* xmltojson.main: the parsed element tree
    collected,   \* xmltojson: walk_and_collect's result (key -> list of entries)
    final        \* xmltojson.main: the document handed to json.dump

vars == <<tool, pc, item, label, key, cls, plip_json, normalized, table, total,
          files, order, tree, collected, final>>

-----------------------------------------------------------------------------
(* Characters and strings                                                  *)

UpperSeq == <<"A","B","C","D","E","F","G","H","I","J","K","L","M","N","O","P","Q","R","S","T","U","V","W","X","Y","Z">>
LowerSeq == <<"a","b","c","d","e","f","g","h","i","j","k","l","m","n","o","p","q","r","s","t","u","v","w","x","y","z">>
DigitSeq == <<"0","1","2","3","4","5","6","7","8","9">>

Range(f) == {f[i] : i \in DOMAIN f}
Upper == Range(UpperSeq)
LowerCase == Range(LowerSeq)
Digit == Range(DigitSeq)
\* the regular expression class \s (ASCII part)
WhiteSpace == {" ", "\t", "\n", "\r", "\f"}

SetMin(S) == CHOOSE m \in S : \A o \in S : m <= o

\* str.lower()
LowerOf == [c \in Upper |-> LowerSeq[CHOOSE i \in DOMAIN UpperSeq : UpperSeq[i] = c]]
LowerChar(c) == IF c \in Upper THEN LowerOf[c] ELSE c
Lower(s) == [i \in 1..Len(s) |-> LowerChar(s[i])]

\* Python's `sub in s` on strings
Contains(sub, s) == \E i \in 0..(Len(s) - Len(sub)) : \A j \in 1..Len(sub) : s[i + j] = sub[j]

\* the last index of the longest run of characters of class C that starts at i
\* (i - 1 when s[i] is not in C): a greedy C* of a regular expression
RunEnd(s, i, C) ==
    LET stop == {k \in i..Len(s) : s[k] \notin C}
    IN  IF stop = {} THEN Len(s) ELSE SetMin(stop) - 1

DigitVal(c) == (CHOOSE i \in DOMAIN DigitSeq : DigitSeq[i] = c) - 1

RECURSIVE NatToStr(_)
NatToStr(n) == IF n < 10 THEN <<DigitSeq[n + 1]>>
               ELSE NatToStr(n \div 10) \o <<DigitSeq[(n % 10) + 1]>>
\* str(n) of an int
IntToStr(n) == IF n < 0 THEN <<"-">> \o NatToStr(-n) ELSE NatToStr(n)

RECURSIVE DigitsToNat(_, _)
DigitsToNat(s, acc) == IF s = <<>> THEN acc
                       ELSE DigitsToNat(Tail(s), acc * 10 + DigitVal(Head(s)))
\* int(s) of a string matched by -?\d+
StrToInt(s) == IF Head(s) = "-" THEN 0 - DigitsToNat(Tail(s), 0) ELSE DigitsToNat(s, 0)

NoMatch == [ok |-> FALSE, g1 |-> <<>>, g2 |-> <<>>, g3 |-> <<>>]

\* re.search(r"-?\d+", s): the leftmost match, its digits taken greedily
SearchInt(s) ==
    LET starts == {i \in 1..Len(s) :
                     \/ s[i] \in Digit
                     \/ s[i] = "-" /\ i < Len(s) /\ s[i + 1] \in Digit}
    IN  IF starts = {} THEN NoMatch
        ELSE LET i == SetMin(starts)
                 d == IF s[i] = "-" THEN i + 1 ELSE i
             IN  [ok |-> TRUE, g1 |-> SubSeq(s, i, RunEnd(s, d, Digit)), g2 |-> <<>>, g3 |-> <<>>]

\* re.match(r'([A-Z]{2,4})\s*(-?\d+)\s*([A-Za-z]?)', s)
\* Giving back letters of the first group never helps: the character after a
\* shorter group is an uppercase letter, which \s*(-?\d+) cannot start with.
MatchLabel(s) ==
    LET run == RunEnd(s, 1, Upper)
        e1  == IF run > 4 THEN 4 ELSE run
        p2  == RunEnd(s, e1 + 1, WhiteSpace) + 1
        p3  == IF p2 <= Len(s) /\ s[p2] = "-" THEN p2 + 1 ELSE p2
        e2  == RunEnd(s, p3, Digit)
        p4  == RunEnd(s, e2 + 1, WhiteSpace) + 1
    IN  IF e1 < 2 \/ e2 < p3 THEN NoMatch
        ELSE [ok |-> TRUE,
              g1 |-> SubSeq(s, 1, e1),
              g2 |-> SubSeq(s, p2, e2),
              g3 |-> IF p4 <= Len(s) /\ s[p4] \in (Upper \cup LowerCase)
                     THEN <<s[p4]>> ELSE <<>>]

-----------------------------------------------------------------------------
(* Python values: None, int, str; a list item is a str or a dict           *)

None == [t |-> "none", i |-> 0, s |-> <<>>]
IntV(n) == [t |-> "int", i |-> n, s |-> <<>>]
StrV(x) == [t |-> "str", i |-> 0, s |-> x]

EmptyDict == [k \in {} |-> None]
StrItem(x) == [t |-> "str", s |-> x, d |-> EmptyDict]
DictItem(f) == [t |-> "dict", s |-> <<>>, d |-> f]

\* bool(v)
Truthy(v) == \/ v.t = "int" /\ v.i # 0
             \/ v.t = "str" /\ v.s # <<>>

\* str(v)
PyStr(v) == CASE v.t = "none" -> <<"N","o","n","e">>
              [] v.t = "int"  -> IntToStr(v.i)
              [] OTHER        -> v.s

\* dict.get(k)
Get(d, k) == IF k \in DOMAIN d THEN d[k] ELSE None

\* v1 or v2 or ... or vn: the first truthy operand, else the last one
RECURSIVE OrChain(_)
OrChain(vals) == IF Len(vals) = 1 \/ Truthy(Head(vals)) THEN Head(vals)
                 ELSE OrChain(Tail(vals))

NameKeys == <<"resname", "residue_name", "residue", "name">>
NumKeys == <<"resnr", "residue_number", "residue_id", "resSeq", "number">>
ChainKeys == <<"chain", "chain_id", "chainId">>

GetAll(d, keys) == [i \in DOMAIN keys |-> Get(d, keys[i])]

\* num = int(re.search(r"-?\d+", str(num)).group()), or str(num) when that raises
NormalizeNum(num) ==
    LET m == SearchInt(PyStr(num))
    IN  IF m.ok THEN IntV(StrToInt(m.g1)) ELSE StrV(PyStr(num))

\* f"{name}{num}_{chain}" if chain else f"{name}{num}"
Render(name, num, chain) ==
    PyStr(name) \o PyStr(num) \o (IF Truthy(chain) THEN <<"_">> \o PyStr(chain) ELSE <<>>)

make_res_label(it) ==
    IF it.t # "dict"
    THEN LET m == MatchLabel(it.s)
         IN  IF m.ok THEN Render(StrV(m.g1), StrV(m.g2), StrV(m.g3)) ELSE it.s
    ELSE LET name0  == OrChain(GetAll(it.d, NameKeys))
             num0   == OrChain(GetAll(it.d, NumKeys))
             chain0 == OrChain(GetAll(it.d, ChainKeys) \o <<StrV(<<>>)>>)
             txt    == Get(it.d, "label")
             m      == IF name0.t = "none" /\ txt.t = "str" THEN MatchLabel(txt.s) ELSE NoMatch
             name1  == IF m.ok THEN StrV(m.g1) ELSE name0
             num1   == IF m.ok THEN StrV(m.g2) ELSE num0
             chain1 == IF m.ok THEN OrChain(<<StrV(m.g3), chain0>>) ELSE chain0
             name   == OrChain(<<name1, StrV(<<"U","N","K">>)>>)
             num    == OrChain(<<num1, StrV(<<"?">>)>>)
         IN  Render(name, NormalizeNum(num), chain1)

-----------------------------------------------------------------------------
(* Interaction classification                                              *)

HBonds == "H-bonds"
Hydrophobic == "Hydrophobic"
Ionic == "Ionic"
WaterBridges == "Water bridges"
\* chosen = None / candidate = None
Unclassified == "None"

\* the order of the DataFrame's columns (build_counts' per-label dict)
Categories == <<HBonds, Hydrophobic, Ionic, WaterBridges>>

KW(kw, cat) == [kw |-> kw, cat |-> cat]

\* normalize_json's mapping, in declaration (= dict iteration) order
JsonMapping == <<
    KW(<<"h","y","d","r","o","g","e","n">>, HBonds),
    KW(<<"h","b","o","n","d">>, HBonds),
    KW(<<"h","b">>, HBonds),
    KW(<<"h","y","d","r","o","p","h","o","b","i","c">>, Hydrophobic),
    KW(<<"h","y","d","r","o">>, Hydrophobic),
    KW(<<"h","y","d">>, Hydrophobic),
    KW(<<"i","o","n","i","c">>, Ionic),
    KW(<<"s","a","l","t">>, Ionic),
    KW(<<"w","a","t","e","r">>, WaterBridges),
    KW(<<"b","r","i","d","g","e">>, WaterBridges),
    KW(<<"w","a","t","e","r","s">>, WaterBridges) >>

S_hydrogen_bonds == <<"h","y","d","r","o","g","e","n","_","b","o","n","d","s">>
S_hydrophobic_contacts == <<"h","y","d","r","o","p","h","o","b","i","c","_","c","o","n","t","a","c","t","s">>
S_ionic_interactions == <<"i","o","n","i","c","_","i","n","t","e","r","a","c","t","i","o","n","s">>
S_water_bridges == <<"w","a","t","e","r","_","b","r","i","d","g","e","s">>

\* walk_and_collect's mapping, in declaration order
XmlMapping == <<
    KW(<<"h","y","d","r","o","g","e","n">>, "hydrogen_bonds"),
    KW(<<"h","b","o","n","d">>, "hydrogen_bonds"),
    KW(<<"h","y","d","r","o","p","h","o","b","i","c">>, "hydrophobic_contacts"),
    KW(<<"h","y","d","r","o">>, "hydrophobic_contacts"),
    KW(<<"i","o","n","i","c">>, "ionic_interactions"),
    KW(<<"s","a","l","t">>, "ionic_interactions"),
    KW(<<"w","a","t","e","r">>, "water_bridges"),
    KW(<<"b","r","i","d","g","e">>, "water_bridges") >>

\* the keyword loop without its break: the last matching keyword wins
ClassifyLast(mapping, s, i) ==
    LET hits == {j \in i..Len(mapping) : Contains(mapping[j].kw, s)}
    IN  IF hits = {} THEN Unclassified
        ELSE mapping[CHOOSE j \in hits : \A h \in hits : h <= j].cat

\* for kw, mapped in mapping.items(): if kw in s: chosen = mapped; break
RECURSIVE ClassifyFrom(_, _, _)
ClassifyFrom(mapping, s, i) ==
    IF i > Len(mapping) THEN Unclassified
    ELSE IF Contains(mapping[i].kw, s) THEN mapping[i].cat
    ELSE ClassifyFrom(mapping, s, i + 1)

Classify(mapping, s) == ClassifyFrom(mapping, s, 1)

-----------------------------------------------------------------------------
(* visual.py: normalize_json                                               *)

\* a JSON value at top level: a list of items, or a number
ListV(items) == [list |-> TRUE, items |-> items]
NumberV == [list |-> FALSE, items |-> <<>>]
Entry(k, v) == [k |-> k, v |-> v]

\* the canonical keys with the bin of each, in the order of the for loop
Canonical == <<
    KW(S_hydrogen_bonds, HBonds),
    KW(S_hydrophobic_contacts, Hydrophobic),
    KW(S_ionic_interactions, Ionic),
    KW(S_water_bridges, WaterBridges) >>

\* out = {v: [] for v in set(mapping.values())}
InitOut == [c \in {JsonMapping[i].cat : i \in DOMAIN JsonMapping} |-> <<>>]

\* out[c].extend(items)
Extend(out, c, items) == [out EXCEPT ![c] = @ \o items]

\* lower_keys = {k.lower(): k for k in plip_json.keys()}: the last key wins
LowerKeys(doc, lk) ==
    LET hits == {i \in DOMAIN doc : Lower(doc[i].k) = lk}
    IN  IF hits = {} THEN 0 ELSE CHOOSE i \in hits : \A j \in hits : j <= i

\* the loop over the four canonical names; extend() of a number raises TypeError
RECURSIVE CopyCanonical(_, _, _)
CopyCanonical(doc, out, n) ==
    IF n > Len(Canonical) THEN [ok |-> TRUE, out |-> out]
    ELSE LET i == LowerKeys(doc, Canonical[n].kw)
         IN  IF i = 0 THEN CopyCanonical(doc, out, n + 1)
             ELSE IF ~doc[i].v.list THEN [ok |-> FALSE, out |-> out]
             ELSE CopyCanonical(doc, Extend(out, Canonical[n].cat, doc[i].v.items), n + 1)

\* t = (val[0].get('type') or val[0].get('interaction') or ""), classified when a str
TypeHint(val) ==
    IF val # <<>> /\ val[1].t = "dict"
    THEN LET t == OrChain(<<Get(val[1].d, "type"), Get(val[1].d, "interaction"), StrV(<<>>)>>)
         IN  IF t.t = "str" THEN Classify(JsonMapping, Lower(t.s)) ELSE Unclassified
    ELSE Unclassified

\* the bin of one top-level key with a list value
BinOf(k, val) ==
    LET chosen == Classify(JsonMapping, Lower(k))
    IN  IF chosen # Unclassified THEN chosen
        ELSE IF TypeHint(val) # Unclassified THEN TypeHint(val)
        ELSE Hydrophobic

\* for k, val in plip_json.items(): ...
RECURSIVE Heuristic(_, _, _)
Heuristic(doc, out, n) ==
    IF n > Len(doc) THEN out
    ELSE IF ~doc[n].v.list THEN Heuristic(doc, out, n + 1)
    ELSE Heuristic(doc, Extend(out, BinOf(doc[n].k, doc[n].v.items), doc[n].v.items), n + 1)

normalize_json(doc) ==
    LET c == CopyCanonical(doc, InitOut, 1)
    IN  IF c.ok THEN [ok |-> TRUE, out |-> Heuristic(doc, c.out, 1)] ELSE c

-----------------------------------------------------------------------------
(* visual.py: build_counts                                                 *)

\* the per-label default: {'H-bonds':0, 'Hydrophobic':0, 'Ionic':0, 'Water bridges':0}
ZeroCells == [c \in Range(Categories) |-> 0]

\* a count that is set instead of incremented
BumpOnce(cells, itype) == [cells EXCEPT ![itype] = 1]

\* counts[label][itype] += 1
Bump(cells, itype) == [cells EXCEPT ![itype] = @ + 1]

RowIndex(rows, lbl) ==
    LET hits == {i \in DOMAIN rows : rows[i].label = lbl}
    IN  IF hits = {} THEN 0 ELSE CHOOSE i \in hits : TRUE

\* one pass of the inner loop body: a new label is appended (dict insertion order)
Count(rows, lbl, itype) ==
    LET i == RowIndex(rows, lbl)
    IN  IF i = 0 THEN Append(rows, [label |-> lbl, cells |-> Bump(ZeroCells, itype)])
        ELSE [rows EXCEPT ![i].cells = Bump(@, itype)]

\* for it in items: label = make_res_label(it); counts[label][itype] += 1; total += 1
RECURSIVE CountItems(_, _, _)
CountItems(acc, items, itype) ==
    IF items = <<>> THEN acc
    ELSE CountItems([rows  |-> Count(acc.rows, make_res_label(Head(items)), itype),
                     total |-> acc.total + 1],
                    Tail(items), itype)

\* for itype, items in normalized.items(): ord is the dict's iteration order
RECURSIVE CountAll(_, _, _, _)
CountAll(acc, ord, lists, n) ==
    IF n > Len(ord) THEN acc
    ELSE CountAll(CountItems(acc, lists[ord[n]], ord[n]), ord, lists, n + 1)

\* the key of a label without an integer
SortSentinel == 1000000000

sort_key(lbl) ==
    LET m == SearchInt(lbl)
    IN  IF m.ok THEN StrToInt(m.g1) ELSE SortSentinel

\* sorted(df.index, key=sort_key): stable, so a row goes after the rows that
\* came before it with a key not greater than its own
RECURSIVE InsertRow(_, _)
InsertRow(sortedRows, r) ==
    IF sortedRows = <<>> THEN <<r>>
    ELSE IF sort_key(sortedRows[Len(sortedRows)].label) <= sort_key(r.label)
         THEN Append(sortedRows, r)
         ELSE Append(InsertRow(SubSeq(sortedRows, 1, Len(sortedRows) - 1), r),
                     sortedRows[Len(sortedRows)])

RECURSIVE SortRows(_, _)
SortRows(rows, n) ==
    IF n = 0 THEN <<>> ELSE InsertRow(SortRows(rows, n - 1), rows[n])

\* build_counts(normalized) -> (df rows in index order, total); an empty counts
\* gives the empty DataFrame
build_counts(ord, lists) ==
    LET c == CountAll([rows |-> <<>>, total |-> 0], ord, lists, 1)
    IN  [rows |-> SortRows(c.rows, Len(c.rows)), total |-> c.total]

-----------------------------------------------------------------------------
(* xmltojson.py: the element tree                                          *)

\* An element: its tag, its attributes (str -> str), its text (None or str)
\* and its parent (0 for the root). tree[n] is element n; a parent comes
\* before its children and siblings are in document order.
Elem(tag, attrib, text) == [tag |-> tag, attrib |-> attrib, text |-> text]
Node(e, p) == [tag |-> e.tag, attrib |-> e.attrib, text |-> e.text, parent |-> p]

PyOr(a, b) == OrChain(<<a, b>>)

RECURSIVE SortedSeq(_)
SortedSeq(S) == IF S = {} THEN <<>> ELSE <<SetMin(S)>> \o SortedSeq(S \ {SetMin(S)})

\* `for child in elem`: the direct children, in document order
Children(t, n) == SortedSeq({c \in DOMAIN t : t[c].parent = n})

\* elem.iter(): the element itself, then its subtree, depth first
RECURSIVE Iter(_, _)
RECURSIVE IterAll(_, _)
Iter(t, n) == <<n>> \o IterAll(t, Children(t, n))
IterAll(t, ids) == IF ids = <<>> THEN <<>> ELSE Iter(t, Head(ids)) \o IterAll(t, Tail(ids))

\* tag.split('}')[-1].lower()
tag_localname(tag) ==
    LET closes == {i \in DOMAIN tag : tag[i] = "}"}
        from   == IF closes = {} THEN 1
                  ELSE (CHOOSE i \in closes : \A j \in closes : j <= i) + 1
    IN  Lower(SubSeq(tag, from, Len(tag)))

\* str.strip()
Strip(s) ==
    LET keep == {i \in DOMAIN s : s[i] \notin WhiteSpace}
    IN  IF keep = {} THEN <<>>
        ELSE SubSeq(s, SetMin(keep), CHOOSE i \in keep : \A j \in keep : j <= i)

-----------------------------------------------------------------------------
(* xmltojson.py: find_residue_info                                         *)

ChildNameTags == {<<"r","e","s","n","a","m","e">>, <<"r","e","s","i","d","u","e","_","n","a","m","e">>, <<"r","e","s","i","d","u","e">>, <<"n","a","m","e">>, <<"r","e","s","i","d","u","e","N","a","m","e">>}
ChildNumTags == {<<"r","e","s","n","r">>, <<"r","e","s","i","d","u","e","_","n","u","m","b","e","r">>, <<"r","e","s","i","d","u","e","_","i","d">>, <<"n","u","m","b","e","r">>, <<"r","e","s","i","d","u","e","N","u","m","b","e","r">>}
ChildChainTags == {<<"c","h","a","i","n">>, <<"c","h","a","i","n","_","i","d">>, <<"c","h","a","i","n","i","d">>}

Triple(name, num, chain) == [name |-> name, num |-> num, chain |-> chain]

\* the first loop over the children: their text
RECURSIVE FromChildText(_, _, _)
FromChildText(t, kids, acc) ==
    IF kids = <<>> THEN acc
    ELSE LET child == t[Head(kids)]
             tg    == tag_localname(child.tag)
             text  == IF Truthy(child.text) THEN StrV(Strip(child.text.s)) ELSE None
             name  == IF tg \in ChildNameTags /\ Truthy(text) THEN PyOr(acc.name, text) ELSE acc.name
             num   == IF tg \in ChildNumTags /\ Truthy(text) THEN PyOr(acc.num, text) ELSE acc.num
             chain == IF tg \in ChildChainTags /\ Truthy(text) THEN PyOr(acc.chain, text) ELSE acc.chain
         IN  FromChildText(t, Tail(kids), Triple(name, num, chain))

\* the second loop: the attributes of a "resid" child
RECURSIVE FromResidChild(_, _, _)
FromResidChild(t, kids, acc) ==
    IF kids = <<>> THEN acc
    ELSE LET child == t[Head(kids)]
             typ   == IF "type" \in DOMAIN child.attrib THEN Lower(child.attrib["type"].s) ELSE <<>>
             c_at  == child.attrib
         IN  IF Contains(<<"r","e","s","i","d">>, tag_localname(child.tag)) \/ Contains(<<"r","e","s","i","d">>, typ)
             THEN FromResidChild(t, Tail(kids),
                      Triple(OrChain(<<acc.name, Get(c_at, "resname"), Get(c_at, "name")>>),
                             OrChain(<<acc.num, Get(c_at, "resnr"), Get(c_at, "number")>>),
                             OrChain(<<acc.chain, Get(c_at, "chain")>>)))
             ELSE FromResidChild(t, Tail(kids), acc)

NoInfo == [ok |-> FALSE, ri |-> EmptyDict]

find_residue_info(t, n) ==
    LET attrib == t[n].attrib
        a == Triple(OrChain(GetAll(attrib, <<"resname", "residue_name", "residue", "name", "resName">>)),
                    OrChain(GetAll(attrib, <<"resnr", "residue_number", "residue_id", "number", "seq", "resSeq">>)),
                    OrChain(GetAll(attrib, <<"chain", "chain_id", "chainId">>)))
        b == IF a.name.t = "none" \/ a.num.t = "none"
             THEN FromChildText(t, Children(t, n), a) ELSE a
        c == IF b.name.t = "none" \/ b.num.t = "none"
             THEN FromResidChild(t, Children(t, n), b) ELSE b
    IN  IF ~Truthy(c.name) /\ ~Truthy(c.num) THEN NoInfo
        ELSE [ok |-> TRUE,
              ri |-> [resname |-> IF c.name.t = "none" THEN None ELSE StrV(PyStr(c.name)),
                      resnr   |-> NormalizeNum(c.num),
                      chain   |-> IF c.chain.t = "none" THEN StrV(<<>>) ELSE StrV(PyStr(c.chain))]]

-----------------------------------------------------------------------------
(* xmltojson.py: walk_and_collect and main                                 *)

\* out[candidate].append(ri) on a defaultdict(list); `src` records the element
\* the entry was extracted from (not part of the program's data)
AppendTo(out, k, ri, src) ==
    IF k \in DOMAIN out THEN [out EXCEPT ![k] = Append(@, [ri |-> ri, src |-> src])]
    ELSE [x \in DOMAIN out \cup {k} |->
            IF x = k THEN <<[ri |-> ri, src |-> src]>> ELSE out[x]]

\* the tag, then the type / interaction / interactionType attribute
Candidate(t, n) ==
    LET byTag == Classify(XmlMapping, tag_localname(t[n].tag))
        typ   == OrChain(GetAll(t[n].attrib, <<"type", "interaction", "interactionType">>) \o <<StrV(<<>>)>>)
    IN  IF byTag # Unclassified THEN byTag ELSE Classify(XmlMapping, Lower(typ.s))

ResidueTagged(t, n) ==
    \/ Contains(<<"r","e","s","i","d","u","e">>, tag_localname(t[n].tag))
    \/ tag_localname(t[n].tag) \in {<<"p","a","r","t","n","e","r">>, <<"a","t","o","m">>}

\* for child in elem.iter(): ... ; acc.found is found_any
RECURSIVE CollectUnder(_, _, _, _)
CollectUnder(t, ids, cand, acc) ==
    IF ids = <<>> THEN acc
    ELSE LET ri == find_residue_info(t, Head(ids))
         IN  IF ResidueTagged(t, Head(ids)) /\ ri.ok
             THEN CollectUnder(t, Tail(ids), cand,
                               [out |-> AppendTo(acc.out, cand, ri.ri, Head(ids)), found |-> TRUE])
             ELSE CollectUnder(t, Tail(ids), cand, acc)

\* the body of `for elem in root.iter()`
Visit(t, n, out) ==
    LET cand == Candidate(t, n)
    IN  IF cand = Unclassified THEN out
        ELSE LET got == CollectUnder(t, Iter(t, n), cand, [out |-> out, found |-> FALSE])
                 self == find_residue_info(t, n)
             IN  IF got.found THEN got.out
                 ELSE IF self.ok THEN AppendTo(out, cand, self.ri, n)
                 ELSE out

RECURSIVE WalkFrom(_, _, _)
WalkFrom(t, ids, out) ==
    IF ids = <<>> THEN out ELSE WalkFrom(t, Tail(ids), Visit(t, Head(ids), out))

walk_and_collect(t) == WalkFrom(t, Iter(t, 1), EmptyDict)

\* keys = ['hydrogen_bonds','hydrophobic_contacts','ionic_interactions','water_bridges']
JsonKeys == <<"hydrogen_bonds", "hydrophobic_contacts", "ionic_interactions", "water_bridges">>

Entries(list) == [i \in DOMAIN list |-> list[i].ri]

\* the collected defaultdict written as it is, without the four keys ensured
FinalDocAsCollected(coll) == [k \in DOMAIN coll |-> Entries(coll[k])]

\* final = {k: collected.get(k, []) for k in keys}
FinalDoc(coll) ==
    [k \in Range(JsonKeys) |-> IF k \in DOMAIN coll THEN Entries(coll[k]) ELSE <<>>]

-----------------------------------------------------------------------------
(* Bounds and input domains                                                *)

\* synonym keys of one field present in one record
MaxSyn == 2
\* keyword fragments in one key or tag
MaxFrags == 2
\* records in one CanonicalReport given to build_counts
MaxRecords == 3
\* top-level keys of one JSON document
MaxKeys == 2
\* items of one top-level list
MaxItems == 1
\* elements of one XML tree
MaxNodes == 3

S_GLU == <<"G","L","U">>
S_SER12B == <<"S","E","R","1","2","B">>

\* all sequences over S of length at most n
RECURSIVE SeqsUpTo(_, _)
SeqsUpTo(S, n) ==
    IF n = 0 THEN {<<>>}
    ELSE LET shorter == SeqsUpTo(S, n - 1)
         IN  shorter \cup {Append(q, x) : q \in shorter, x \in S}

\* all dicts with at most n of the keys, each with a value of vals
DictsOver(keys, vals, n) ==
    UNION {[ks -> vals] : ks \in {x \in SUBSET keys : Cardinality(x) <= n}}

\* plain strings: letters, whitespace, number, chain letter
LabelStrings ==
    {l \o w \o n \o c :
        l \in {<<"A">>, <<"G","L">>, S_GLU, <<"G","L","U","X">>},
        w \in {<<>>, <<" ">>},
        n \in {<<"4","0">>, <<"-","5">>, <<"0","0","7">>, <<"0">>, <<>>},
        c \in {<<>>, <<"A">>, <<"b">>}}

\* structured records
LabelDicts(n) ==
    {nm @@ nr @@ ch @@ lb :
        nm \in DictsOver(Range(NameKeys), {StrV(S_GLU), StrV(<<>>)}, n),
        nr \in DictsOver(Range(NumKeys), {IntV(0), IntV(40), StrV(<<"A","1","2","3","B">>)}, n),
        ch \in {EmptyDict, [chain |-> StrV(<<"A">>)]},
        lb \in {EmptyDict, [label |-> StrV(S_SER12B)]}}

LabelItems(n) == {StrItem(s) : s \in LabelStrings} \cup {DictItem(d) : d \in LabelDicts(n)}

\* keys and tags: concatenations of keywords, separators and other text
Fragments == {<<"h","y","d","r","o","g","e","n">>, <<"h","b","o","n","d">>, <<"h","b">>, <<"h","y","d","r","o","p","h","o","b","i","c">>, <<"h","y","d">>, <<"i","o","n","i","c">>, <<"s","a","l","t">>,
              <<"w","a","t","e","r">>, <<"b","r","i","d","g","e">>, <<"H","B">>, <<"S","a","l","t">>, <<"_">>, <<"c","o","n","t","a","c","t","s">>, <<"{","n","s","}">>}

RECURSIVE Concat(_)
Concat(ss) == IF ss = <<>> THEN <<>> ELSE Head(ss) \o Concat(Tail(ss))

KeyStrings(n) == {Concat(fs) : fs \in SeqsUpTo(Fragments, n)}

\* the items of CanonicalReports and of JSON lists
I_ARG2 == StrItem(<<"A","R","G","2">>)
I_LEU5 == DictItem([resname |-> StrV(<<"L","E","U">>), resnr |-> IntV(5)])
I_HOH == StrItem(<<"H","O","H">>)
I_Empty == DictItem(EmptyDict)
I_Big == StrItem(<<"G","L","U","2","0","0","0","0","0","0","0","0","0">>)
I_Ionic == DictItem([type |-> StrV(<<"i","o","n","i","c">>), residue |-> StrV(S_GLU), number |-> StrV(<<"4","0">>)])

ReportItems == {I_ARG2, I_LEU5, I_HOH, I_Empty, I_Big}

\* the possible iteration orders of a dict with the four categories
Perms == {p \in [1..4 -> Range(Categories)] : \A i, j \in 1..4 : p[i] = p[j] => i = j}

\* the key orders of the CanonicalReports given to build_counts: the rotations
\* of the declared order
ReportOrders == {[i \in 1..4 |-> Categories[((i + r) % 4) + 1]] : r \in 0..3}

\* the lists of a report whose records, in order, are recs
ListsOf(recs) ==
    [c \in Range(Categories) |->
        LET RECURSIVE pick(_)
            pick(n) == IF n > Len(recs) THEN <<>>
                       ELSE (IF recs[n].cat = c THEN <<recs[n].it>> ELSE <<>>) \o pick(n + 1)
        IN  pick(1)]

Reports(n) ==
    {ListsOf(recs) :
        recs \in SeqsUpTo([cat : Range(Categories), it : ReportItems], n)}

DocKeys == {S_hydrogen_bonds, <<"s","a","l","t","_","b","r","i","d","g","e","s">>, <<"u","n","k","n","o","w","n","_","c","o","n","t","a","c","t","s">>}
DocItems == {I_Empty, I_Ionic}
DocValues(ni) == {ListV(l) : l \in SeqsUpTo(DocItems, ni)} \cup {NumberV}

Docs(nk, ni) ==
    {d \in SeqsUpTo([k : DocKeys, v : DocValues(ni)], nk) :
        \A i, j \in DOMAIN d : d[i].k = d[j].k => i = j}

SER12A == [resname |-> StrV(<<"S","E","R">>), resnr |-> StrV(<<"1","2">>), chain |-> StrV(<<"A">>)]

Elements == {
    Elem(<<"r","e","p","o","r","t">>, EmptyDict, None),
    Elem(S_hydrogen_bonds, EmptyDict, None),
    Elem(<<"h","y","d","r","o","g","e","n","_","b","o","n","d">>, EmptyDict, None),
    Elem(<<"r","e","s","i","d","u","e">>, SER12A, None),
    Elem(<<"p","a","r","t","n","e","r">>, EmptyDict, None),
    Elem(<<"i","n","t","e","r","a","c","t","i","o","n">>, [type |-> StrV(<<"S","a","l","t","_","B","r","i","d","g","e">>), name |-> StrV(<<"A","S","P">>)], None),
    Elem(<<"r","e","s","n","r">>, EmptyDict, StrV(<<" ","7"," ">>)),
    Elem(<<"{","n","s","}","H","y","d","r","o","p","h","o","b","i","c","_","R","e","s","i","d","u","e">>, [number |-> StrV(<<"x","5">>)], None) }

Trees(max) ==
    UNION {{[i \in 1..n |-> Node(es[i], ps[i])] :
               es \in [1..n -> Elements],
               ps \in {p \in [1..n -> 0..(n - 1)] :
                          p[1] = 0 /\ \A i \in 2..n : 1 <= p[i] /\ p[i] < i}} :
           n \in 1..max}

-----------------------------------------------------------------------------
(* The programs                                                            *)

NotComputed == ""

\* everything a program does not use
Idle(used) ==
    /\ "item" \in used \/ item = StrItem(<<>>)
    /\ "key" \in used \/ key = <<>>
    /\ "plip_json" \in used \/ plip_json = <<>>
    /\ "normalized" \in used \/ normalized = EmptyDict
    /\ "order" \in used \/ order = <<>>
    /\ "tree" \in used \/ tree = <<>>
    /\ label = <<>>
    /\ cls = [json |-> NotComputed, xml |-> NotComputed]
    /\ table = <<>>
    /\ total = 0
    /\ files = {}
    /\ collected = EmptyDict
    /\ final = EmptyDict

(* make_res_label on one record *)
InitLabel ==
    /\ tool = "label" /\ pc = "start"
    /\ item \in LabelItems(MaxSyn)
    /\ Idle({"item"})

MakeLabel ==
    /\ tool = "label" /\ pc = "start"
    /\ label' = make_res_label(item)
    /\ pc' = "done"
    /\ UNCHANGED <<tool, item, key, cls, plip_json, normalized, table, total, files,
                   order, tree, collected, final>>

NextLabel == MakeLabel
SpecLabel == InitLabel /\ [][NextLabel]_vars

(* the keyword loops of normalize_json and walk_and_collect on one string *)
InitClassify ==
    /\ tool = "classify" /\ pc = "start"
    /\ key \in KeyStrings(MaxFrags)
    /\ Idle({"key"})

\* lk = k.lower(), then the loop over mapping.items()
ClassifyJsonKey ==
    /\ tool = "classify" /\ cls.json = NotComputed
    /\ cls' = [cls EXCEPT !.json = Classify(JsonMapping, Lower(key))]
    /\ UNCHANGED <<tool, pc, item, label, key, plip_json, normalized, table, total,
                   files, order, tree, collected, final>>

\* t = tag_localname(elem.tag), then the loop over mapping.items()
ClassifyXmlTag ==
    /\ tool = "classify" /\ cls.xml = NotComputed
    /\ cls' = [cls EXCEPT !.xml = Classify(XmlMapping, tag_localname(key))]
    /\ UNCHANGED <<tool, pc, item, label, key, plip_json, normalized, table, total,
                   files, order, tree, collected, final>>

NextClassify == ClassifyJsonKey \/ ClassifyXmlTag
SpecClassify == InitClassify /\ [][NextClassify]_vars

(* build_counts on one CanonicalReport *)
InitCounts ==
    /\ tool = "counts" /\ pc = "start"
    /\ normalized \in Reports(MaxRecords)
    /\ order \in ReportOrders
    /\ Idle({"normalized", "order"})

BuildCounts ==
    /\ tool = "counts" /\ pc = "start"
    /\ LET r == build_counts(order, normalized)
       IN  table' = r.rows /\ total' = r.total
    /\ pc' = "done"
    /\ UNCHANGED <<tool, item, label, key, cls, plip_json, normalized, files, order,
                   tree, collected, final>>

NextCounts == BuildCounts
SpecCounts == InitCounts /\ [][NextCounts]_vars

(* visual.py main(json_path, out_png, out_csv) *)
InitVisual ==
    /\ tool = "visual" /\ pc = "start"
    /\ plip_json \in Docs(MaxKeys, MaxItems)
    /\ Idle({"plip_json"})

\* with open(json_path) as f: plip_json = json.load(f) -- or it raises
ReadJson ==
    /\ tool = "visual" /\ pc = "start"
    /\ pc' = "loaded" \/ pc' = "failed"
    /\ UNCHANGED <<tool, item, label, key, cls, plip_json, normalized, table, total,
                   files, order, tree, collected, final>>

\* normalized = normalize_json(plip_json) -- or extend() raises TypeError
NormalizeJson ==
    /\ tool = "visual" /\ pc = "loaded"
    /\ LET r == normalize_json(plip_json)
       IN  IF r.ok THEN normalized' = r.out /\ pc' = "normalized"
           ELSE pc' = "failed" /\ UNCHANGED normalized
    /\ UNCHANGED <<tool, item, label, key, cls, plip_json, table, total, files, order,
                   tree, collected, final>>

\* df, total = build_counts(normalized); the keys of normalized come from a
\* set of strings, so their order is any of the permutations
CountResidues ==
    /\ tool = "visual" /\ pc = "normalized"
    /\ \E o \in Perms :
          LET r == build_counts(o, normalized)
          IN  table' = r.rows /\ total' = r.total
    /\ pc' = "counted"
    /\ UNCHANGED <<tool, item, label, key, cls, plip_json, normalized, files, order,
                   tree, collected, final>>

\* df.to_csv(out_csv) -- or it raises
WriteCsv ==
    /\ tool = "visual" /\ pc = "counted"
    /\ \/ files' = files \cup {"csv"} /\ pc' = "csv"
       \/ pc' = "failed" /\ UNCHANGED files
    /\ UNCHANGED <<tool, item, label, key, cls, plip_json, normalized, table, total,
                   order, tree, collected, final>>

\* plot_stacked_fraction(df, total, out_png): fig.savefig(out_png) -- or it raises
PlotPng ==
    /\ tool = "visual" /\ pc = "csv"
    /\ \/ files' = files \cup {"png"} /\ pc' = "done"
       \/ pc' = "failed" /\ UNCHANGED files
    /\ UNCHANGED <<tool, item, label, key, cls, plip_json, normalized, table, total,
                   order, tree, collected, final>>

(* xmltojson.py main(xml_path, json_path) *)
InitXml ==
    /\ tool = "xml" /\ pc = "start"
    /\ tree \in Trees(MaxNodes)
    /\ Idle({"tree"})

\* tree = ET.parse(xml_path); root = tree.getroot() -- or it raises
ParseXml ==
    /\ tool = "xml" /\ pc = "start"
    /\ pc' = "parsed" \/ pc' = "failed"
    /\ UNCHANGED <<tool, item, label, key, cls, plip_json, normalized, table, total,
                   files, order, tree, collected, final>>

\* collected = walk_and_collect(root)
WalkTree ==
    /\ tool = "xml" /\ pc = "parsed"
    /\ collected' = walk_and_collect(tree)
    /\ pc' = "collected"
    /\ UNCHANGED <<tool, item, label, key, cls, plip_json, normalized, table, total,
                   files, order, tree, final>>

\* final = {...}; with open(json_path, 'w') as f: json.dump(final, f) -- or open raises
WriteJson ==
    /\ tool = "xml" /\ pc = "collected"
    /\ final' = FinalDoc(collected)
    /\ \/ files' = files \cup {"json"} /\ pc' = "done"
       \/ pc' = "failed" /\ UNCHANGED files
    /\ UNCHANGED <<tool, item, label, key, cls, plip_json, normalized, table, total,
                   order, tree, collected>>

Init == InitVisual \/ InitXml

Next ==
    \/ ReadJson
    \/ NormalizeJson
    \/ CountResidues
    \/ WriteCsv
    \/ PlotPng
    \/ ParseXml
    \/ WalkTree
    \/ WriteJson

Spec == Init /\ [][Next]_vars

-----------------------------------------------------------------------------
(* Properties                                                              *)

RECURSIVE CellSum(_)
CellSum(rows) ==
    IF rows = <<>> THEN 0
    ELSE Head(rows).cells[HBonds] + Head(rows).cells[Hydrophobic]
         + Head(rows).cells[Ionic] + Head(rows).cells[WaterBridges] + CellSum(Tail(rows))

ReportSize(lists) ==
    Len(lists[HBonds]) + Len(lists[Hydrophobic]) + Len(lists[Ionic]) + Len(lists[WaterBridges])

\* C1: build_counts returns a total equal to the sum of the lengths of the four
\* category lists, the cells of the table add up to that total, and no cell is
\* negative, also when several items render to the same label.
C1_Conservation ==
    (tool = "counts" /\ pc = "done") =>
        /\ total = ReportSize(normalized)
        /\ CellSum(table) = total
        /\ \A i \in DOMAIN table : \A c \in Range(Categories) : table[i].cells[c] >= 0

\* several items of the report rendered to one label, and they were counted
C1_Witness ==
    /\ tool = "counts" /\ pc = "done"
    /\ total >= 2
    /\ Len(table) < total

\* the number of items the claim expects in one bin: the canonical key's list
\* once, plus the lists of the other keys that classify to that bin
RECURSIVE OtherKeysLen(_, _, _)
OtherKeysLen(doc, cat, n) ==
    IF n > Len(doc) THEN 0
    ELSE (IF /\ doc[n].v.list
             /\ \A i \in DOMAIN Canonical : Lower(doc[n].k) # Canonical[i].kw
             /\ BinOf(doc[n].k, doc[n].v.items) = cat
          THEN Len(doc[n].v.items) ELSE 0) + OtherKeysLen(doc, cat, n + 1)

CanonicalLen(doc, cat) ==
    LET n == CHOOSE i \in DOMAIN Canonical : Canonical[i].cat = cat
        i == LowerKeys(doc, Canonical[n].kw)
    IN  IF i = 0 THEN 0 ELSE Len(doc[i].v.items)

\* C2: a canonical top-level key's list is copied into its category bypassing
\* classification and the heuristic loop handles only the other keys, so each
\* category holds the canonical list once plus the lists of the other keys
\* classified to it.
C2_CanonicalCopiedOnce ==
    (tool = "visual" /\ pc = "normalized") =>
        \A c \in Range(Categories) :
            Len(normalized[c]) = CanonicalLen(plip_json, c) + OtherKeysLen(plip_json, c, 1)

\* the value of the first of `keys` that the record has
FirstPresent(d, keys) ==
    d[keys[SetMin({i \in DOMAIN keys : keys[i] \in DOMAIN d})]]

HasKey(d, keys) == \E i \in DOMAIN keys : keys[i] \in DOMAIN d

\* C3: for a structured record with a recognized name key and a recognized
\* number key, the label is built from the value of the first present key of
\* each field, for every value including 0 and the empty string.
C3_FirstPresentKeyWins ==
    (/\ tool = "label" /\ pc = "done" /\ item.t = "dict"
     /\ HasKey(item.d, NameKeys) /\ HasKey(item.d, NumKeys)) =>
        label = Render(FirstPresent(item.d, NameKeys),
                       NormalizeNum(FirstPresent(item.d, NumKeys)),
                       OrChain(GetAll(item.d, ChainKeys) \o <<StrV(<<>>)>>))

\* the claim's grammar: one to four uppercase letters, optional whitespace, a
\* signed integer, an optional single chain letter
Grammar(s) ==
    LET e1   == RunEnd(s, 1, Upper)
        p2   == RunEnd(s, e1 + 1, WhiteSpace) + 1
        p3   == IF p2 <= Len(s) /\ s[p2] = "-" THEN p2 + 1 ELSE p2
        e2   == RunEnd(s, p3, Digit)
        rest == SubSeq(s, e2 + 1, Len(s))
    IN  [ok      |-> /\ 1 <= e1 /\ e1 <= 4 /\ p3 <= e2
                     /\ \/ rest = <<>>
                        \/ Len(rest) = 1 /\ rest[1] \in (Upper \cup LowerCase),
         letters |-> SubSeq(s, 1, e1),
         number  |-> SubSeq(s, p2, e2),
         chain   |-> rest]

\* C4: a plain string of the grammar gets the label of the structured record
\* {resname: letters, resnr: number, chain: chain letter}.
C4_StringEqualsStructured ==
    (tool = "label" /\ pc = "done" /\ item.t = "str" /\ Grammar(item.s).ok) =>
        LET g == Grammar(item.s)
        IN  label = make_res_label(DictItem([resname |-> StrV(g.letters),
                                             resnr   |-> StrV(g.number),
                                             chain   |-> StrV(g.chain)]))

HasInt(lbl) == SearchInt(lbl).ok
FirstInt(lbl) == StrToInt(SearchInt(lbl).g1)

\* the labels of the report in the order build_counts meets them
RECURSIVE Encounter(_, _, _)
Encounter(ord, lists, n) ==
    IF n > Len(ord) THEN <<>>
    ELSE [i \in DOMAIN lists[ord[n]] |-> make_res_label(lists[ord[n]][i])]
         \o Encounter(ord, lists, n + 1)

FirstSeen(labels, lbl) == SetMin({i \in DOMAIN labels : labels[i] = lbl})

\* C5: the rows are in non-decreasing order of the first signed integer of the
\* label, every label without an integer comes after all labels with one, and
\* the labels without an integer keep their encounter order.
C5_RowOrder ==
    (tool = "counts" /\ pc = "done") =>
        LET seen == Encounter(order, normalized, 1)
        IN  \A i, j \in DOMAIN table :
                i < j =>
                    LET a == table[i].label
                        b == table[j].label
                    IN  /\ (HasInt(a) /\ HasInt(b)) => FirstInt(a) <= FirstInt(b)
                        /\ ~HasInt(a) => ~HasInt(b)
                        /\ (~HasInt(a) /\ ~HasInt(b)) => FirstSeen(seen, a) < FirstSeen(seen, b)

Outputs == IF tool = "visual" THEN {"csv", "png"} ELSE {"json"}

\* C6: a run of either tool ends with all of its output files written or with
\* none: a failed run leaves no artifact.
C6_AllOrNothing ==
    /\ pc = "failed" => files = {}
    /\ pc = "done" => files = Outputs

\* a record with neither a residue name nor a residue number
Identityless(it) ==
    /\ it.t = "dict"
    /\ ~HasKey(it.d, NameKeys) /\ ~HasKey(it.d, NumKeys)
    /\ "label" \notin DOMAIN it.d

WithIdentity(list) == Cardinality({i \in DOMAIN list : ~Identityless(list[i])})

\* C7: a record in which name and number are both absent contributes to no
\* count: the XML walk appends nothing for it, and on the JSON path it adds no
\* unit to the total and no row to the table.
C7_NoIdentitylessCounted ==
    /\ tool = "xml" =>
          \A k \in DOMAIN collected : \A i \in DOMAIN collected[k] :
              \/ collected[k][i].ri.resname.t # "none"
              \/ collected[k][i].ri.resnr # StrV(<<"N","o","n","e">>)
    /\ (tool = "visual" /\ pc \in {"counted", "csv", "done"}) =>
          /\ total = WithIdentity(normalized[HBonds]) + WithIdentity(normalized[Hydrophobic])
                     + WithIdentity(normalized[Ionic]) + WithIdentity(normalized[WaterBridges])
          /\ \A r \in DOMAIN table :
                \E c \in Range(Categories) : \E i \in DOMAIN normalized[c] :
                    /\ ~Identityless(normalized[c][i])
                    /\ make_res_label(normalized[c][i]) = table[r].label

IsList(x) == DOMAIN x = 1..Len(x)

\* C8: normalize_json returns a mapping with exactly the four keys H-bonds,
\* Hydrophobic, Ionic, Water bridges, and the document the XML conversion
\* writes has exactly the four keys hydrogen_bonds, hydrophobic_contacts,
\* ionic_interactions, water_bridges; each key holds a list, possibly empty.
C8_FourCategories ==
    /\ (tool = "visual" /\ pc \in {"normalized", "counted", "csv", "done"}) =>
          /\ DOMAIN normalized = {"H-bonds", "Hydrophobic", "Ionic", "Water bridges"}
          /\ \A c \in DOMAIN normalized : IsList(normalized[c])
    /\ (tool = "xml" /\ "json" \in files) =>
          /\ DOMAIN final = {"hydrogen_bonds", "hydrophobic_contacts",
                             "ionic_interactions", "water_bridges"}
          /\ \A k \in DOMAIN final : IsList(final[k])

\* a document was written for a tree without any interaction
C8_Witness ==
    /\ tool = "xml" /\ pc = "done" /\ "json" \in files
    /\ DOMAIN collected = {}
    /\ \A k \in DOMAIN final : final[k] = <<>>

\* the keyword table of the claim, in its order
ClaimKeywords == <<
    <<<<"h","y","d","r","o","g","e","n">>, 1>>, <<<<"h","b","o","n","d">>, 1>>, <<<<"h","b">>, 1>>,
    <<<<"h","y","d","r","o","p","h","o","b","i","c">>, 2>>, <<<<"h","y","d","r","o">>, 2>>, <<<<"h","y","d">>, 2>>,
    <<<<"i","o","n","i","c">>, 3>>, <<<<"s","a","l","t">>, 3>>,
    <<<<"w","a","t","e","r">>, 4>>, <<<<"b","r","i","d","g","e">>, 4>>, <<<<"w","a","t","e","r","s">>, 4>> >>

\* the keyword table of the XML normalizer, in its order
XmlKeywords == <<
    <<<<"h","y","d","r","o","g","e","n">>, 1>>, <<<<"h","b","o","n","d">>, 1>>,
    <<<<"h","y","d","r","o","p","h","o","b","i","c">>, 2>>, <<<<"h","y","d","r","o">>, 2>>,
    <<<<"i","o","n","i","c">>, 3>>, <<<<"s","a","l","t">>, 3>>,
    <<<<"w","a","t","e","r">>, 4>>, <<<<"b","r","i","d","g","e">>, 4>> >>

\* the category (by number) of the first keyword of the table that is a
\* substring of s, 0 when none is
FirstKeyword(kws, s) ==
    LET hits == {i \in DOMAIN kws : Contains(kws[i][1], s)}
    IN  IF hits = {} THEN 0 ELSE kws[SetMin(hits)][2]

JsonName(n) == IF n = 0 THEN Unclassified ELSE Categories[n]
XmlName(n) == IF n = 0 THEN Unclassified ELSE JsonKeys[n]

\* C9 as claimed: both normalizers return the category of the first keyword of
\* the one eleven-keyword table that is a substring of the lower-cased string,
\* and unclassified only when none is.
C9_OneTable ==
    /\ cls.json # NotComputed => cls.json = JsonName(FirstKeyword(ClaimKeywords, Lower(key)))
    /\ cls.xml # NotComputed => cls.xml = XmlName(FirstKeyword(ClaimKeywords, tag_localname(key)))

\* C9 as amended: each normalizer returns the category of the first keyword of
\* its own table, in that table's order, that is a substring of the lower-cased
\* key (JSON) or of the lower-cased local tag name (XML), and unclassified only
\* when no keyword of its own table is; the XML table has no hb, hyd, waters.
C9_OwnTable ==
    /\ cls.json # NotComputed => cls.json = JsonName(FirstKeyword(ClaimKeywords, Lower(key)))
    /\ cls.xml # NotComputed => cls.xml = XmlName(FirstKeyword(XmlKeywords, tag_localname(key)))

\* a string with keywords of two categories was classified by both normalizers
C9_Witness ==
    /\ Contains(<<"s","a","l","t">>, Lower(key)) /\ Contains(<<"b","r","i","d","g","e">>, Lower(key))
    /\ cls.json = Ionic /\ cls.xml = "ionic_interactions"

\* how many entries of the output were extracted from element n
TimesAppended(n) ==
    LET cnt(k) == IF k \in DOMAIN collected
                  THEN Cardinality({i \in DOMAIN collected[k] : collected[k][i].src = n})
                  ELSE 0
    IN  cnt("hydrogen_bonds") + cnt("hydrophobic_contacts")
        + cnt("ionic_interactions") + cnt("water_bridges")

RECURSIVE TotalAppended(_)
TotalAppended(n) == IF n = 0 THEN 0 ELSE TimesAppended(n) + TotalAppended(n - 1)

\* C10: every residue-bearing element that yields an identity is appended to
\* the output of walk_and_collect at most once in total, so the output never
\* has more records than the tree has elements.
C10_NoDoubleCollection ==
    tool = "xml" =>
        /\ \A n \in DOMAIN tree : ResidueTagged(tree, n) => TimesAppended(n) <= 1
        /\ TotalAppended(Len(tree)) <= Len(tree)

=============================================================================
